---- MODULE Spec2Model ----
(***************************************************************************)
(* One pass of inflation_inference_app.py: a Streamlit script that runs    *)
(* top to bottom.  Each section of the script is one action; an exception  *)
(* that no handler catches ends the pass (the runtime shows it on the page *)
(* and nothing scheduled after it runs).                                    *)
(*                                                                         *)
(* Numbers: importances and data values are integers (0.1 is modelled as   *)
(* 1, 0.5 as 5); only their order and equality matter to the code.         *)
(***************************************************************************)
EXTENDS Integers, Sequences, FiniteSets, TLC

VARIABLES
    pc,         \* the section the script is about to run
    rendered,   \* the elements put on the page so far, in order
    merge_raw,  \* merge_df as read by pd.read_csv (line 73)
    merge_df,   \* merge_df after lines 74-75
    artifact,   \* what inflation_model.pkl holds
    model,      \* the value bound to `model` (line 127)
    x_test,     \* line 130
    y_test,     \* line 131
    uploaded,   \* the value of the file_uploader widget (line 199)
    rk_in,      \* ranking inputs: features and importances (lines 169-170)
    rk_out      \* feature_importance_df (lines 173-177)

vars == <<pc, rendered, merge_raw, merge_df, artifact, model, x_test, y_test,
          uploaded, rk_in, rk_out>>

---------------------------------------------------------------------------
(* Bounds of the model *)

MaxRows == 2

MaxTestRows == 2

MaxFeatures == 17

---------------------------------------------------------------------------
(* Sequence helpers *)

Range(s) == {s[i] : i \in 1..Len(s)}

Min(a, b) == IF a < b THEN a ELSE b

\* DataFrame.head(n): the first n rows.
Head_n == 5

HeadRows(rows) == SubSeq(rows, 1, Min(Len(rows), Head_n))

RECURSIVE SumSeq(_)
SumSeq(s) == IF s = <<>> THEN 0 ELSE s[1] + SumSeq(Tail(s))

---------------------------------------------------------------------------
(* Tables: a sequence of column names and a sequence of rows, each row a   *)
(* function from the column names to cell values.                          *)

EmptyTable == [cols |-> <<>>, rows |-> <<>>]

HasColumn(df, c) == c \in Range(df.cols)

Column(df, c) == [i \in 1..Len(df.rows) |-> df.rows[i][c]]

\* The columns of merge_data.csv the script names, in file order.
MergeColumns ==
    <<"period", "allItemsYearOn", "foodYearOn",
      "allItemsLessFrmProdAndEnergyYearOn",
      "moneySupply_M3", "moneySupply_M2", "narrowMoney">>

inflation_vars ==
    <<"allItemsYearOn", "foodYearOn", "allItemsLessFrmProdAndEnergyYearOn">>

corr_vars ==
    <<"allItemsYearOn", "moneySupply_M3", "moneySupply_M2", "narrowMoney">>

---------------------------------------------------------------------------
(* The files pd.read_csv("merge_data.csv") can find.  A file has any       *)
(* subset of the named columns and up to MaxRows rows; a row is drawn as a *)
(* period text and one number v, and each numeric column is a fixed        *)
(* function of v, so that columns can be equal, anti-correlated, partly    *)
(* correlated or constant.                                                 *)

PeriodTexts == {"2021-02", "2020-12", "", "abc"}

CellValues == {0, 1, 2}

RowSeeds == PeriodTexts \X CellValues

ColValue(c, v) ==
    CASE c = "allItemsYearOn" -> v
      [] c = "foodYearOn" -> v + 1
      [] c = "allItemsLessFrmProdAndEnergyYearOn" -> v
      [] c = "moneySupply_M3" -> 2 * v
      [] c = "moneySupply_M2" -> 3 - v
      [] c = "narrowMoney" -> v * v
      [] OTHER -> 0

MkMerged(S, seeds) ==
    [cols |-> SelectSeq(MergeColumns, LAMBDA c : c \in S),
     rows |-> [i \in 1..Len(seeds) |->
                 [c \in S |-> IF c = "period" THEN seeds[i][1]
                              ELSE ColValue(c, seeds[i][2])]]]

MergedCsvFiles ==
    {MkMerged(S, seeds) :
        S \in SUBSET Range(MergeColumns),
        seeds \in UNION {[1..n -> RowSeeds] : n \in 0..MaxRows}}

---------------------------------------------------------------------------
(* pd.to_datetime (line 74): a text is parsed to a timestamp, here the     *)
(* month's ordinal year*12 + month-1; an empty cell becomes NaT; any other *)
(* text raises.                                                            *)

NaT == -1

Parseable(s) == s \in {"2021-02", "2020-12", ""}

to_datetime(s) ==
    CASE s = "2020-12" -> 2020 * 12 + 11
      [] s = "2021-02" -> 2021 * 12 + 1
      [] OTHER -> NaT

ParseRow(r) == [r EXCEPT !["period"] = to_datetime(r["period"])]

ParsePeriod(df) ==
    [df EXCEPT !.rows = [i \in 1..Len(df.rows) |-> ParseRow(df.rows[i])]]

(* DataFrame.sort_values(by), ascending, missing keys last; rows with      *)
(* equal keys keep their order.                                            *)

KeyBefore(a, b) == a # NaT /\ (b = NaT \/ a < b)

RECURSIVE InsertAsc(_, _, _)
InsertAsc(r, s, by) ==
    IF s = <<>> THEN <<r>>
    ELSE IF KeyBefore(r[by], s[1][by]) THEN <<r>> \o s
    ELSE <<s[1]>> \o InsertAsc(r, Tail(s), by)

UnsortedRows(rows, by) == rows

RECURSIVE SortRowsAsc(_, _)
SortRowsAsc(rows, by) ==
    IF rows = <<>> THEN <<>>
    ELSE InsertAsc(rows[Len(rows)],
                   SortRowsAsc(SubSeq(rows, 1, Len(rows) - 1), by), by)

sort_values(df, by) == [df EXCEPT !.rows = SortRowsAsc(df.rows, by)]

(* Values of the variables before the script assigns them *)

NoModel == [shape |-> "none", features |-> <<>>, coef |-> 0,
            has_importances |-> FALSE, importances |-> <<>>,
            best_params |-> "none"]

NoUpload == [present |-> FALSE, readable |-> FALSE, df |-> EmptyTable]

NoRanking == [features |-> <<>>, importances |-> <<>>]

---------------------------------------------------------------------------
(* DataFrame.to_csv(index=False): every timestamp is written back as text *)
(* (not the text that was read: the day is added), NaT as an empty cell.   *)

format_datetime(t) ==
    CASE t = 2020 * 12 + 11 -> "2020-12-01"
      [] t = 2021 * 12 + 1 -> "2021-02-01"
      [] OTHER -> ""

to_csv(df) ==
    IF HasColumn(df, "period")
    THEN [df EXCEPT !.rows =
            [i \in 1..Len(df.rows) |->
               [df.rows[i] EXCEPT !["period"] = format_datetime(@)]]]
    ELSE df

---------------------------------------------------------------------------
(* DataFrame.corr(): pairwise Pearson coefficients.  With                  *)
(*   Sxy = n*sum(xy) - sum(x)*sum(y)                                       *)
(* the coefficient is Sxy / sqrt(Sxx*Syy); it is kept exactly as its sign  *)
(* and its square num/den.  Fewer than two rows, or a constant column,     *)
(* give NaN.                                                               *)

Dot(xs, ys) == SumSeq([i \in 1..Len(xs) |-> xs[i] * ys[i]])

Sxy(xs, ys) == Len(xs) * Dot(xs, ys) - SumSeq(xs) * SumSeq(ys)

Sign(n) == IF n > 0 THEN 1 ELSE IF n < 0 THEN -1 ELSE 0

NaN == [nan |-> TRUE, sign |-> 0, num |-> 0, den |-> 1]

Pearson(xs, ys) ==
    IF Len(xs) < 2 \/ Sxy(xs, xs) * Sxy(ys, ys) = 0 THEN NaN
    ELSE [nan |-> FALSE, sign |-> Sign(Sxy(xs, ys)),
          num |-> Sxy(xs, ys) * Sxy(xs, ys),
          den |-> Sxy(xs, xs) * Sxy(ys, ys)]

IsOne(r) == ~r.nan /\ r.sign = 1 /\ r.num = r.den

\* df[cols].corr(): a matrix indexed by the selected columns.
corr(df, cols) ==
    [a \in Range(cols), b \in Range(cols) |->
        Pearson(Column(df, a), Column(df, b))]

\* df[cols] raises KeyError when any of the columns is missing.
MissingColumns(df, cols) == {c \in Range(cols) : ~HasColumn(df, c)}

---------------------------------------------------------------------------
(* The model artifact.  An estimator has the feature names it was fitted   *)
(* on, a coefficient that fixes its predictions and, for some estimator    *)
(* types, feature_importances_.  A search wrapper holds such an estimator  *)
(* as best_estimator_ together with best_params_; it forwards predict but  *)
(* has no feature_importances_ of its own.                                 *)

Schema == <<"f1", "f2", "f3">>

Estimators ==
    {[shape |-> "bare", features |-> Schema, coef |-> 2,
      has_importances |-> TRUE, importances |-> imp, best_params |-> "none"] :
        imp \in {<<1, 5, 2>>, <<2, 2, 0>>}}
    \cup
    {[shape |-> "bare", features |-> Schema, coef |-> 3,
      has_importances |-> FALSE, importances |-> <<>>, best_params |-> "none"]}

Wrap(est, params) == [est EXCEPT !.shape = "wrapper", !.best_params = params]

best_estimator_(a) == [a EXCEPT !.shape = "bare", !.best_params = "none"]

Unloadable(kind) ==
    [shape |-> kind, features |-> <<>>, coef |-> 0,
     has_importances |-> FALSE, importances |-> <<>>, best_params |-> "none"]

ModelFiles ==
    Estimators
    \cup {Wrap(e, "max_depth=3") : e \in {x \in Estimators : x.importances = <<1, 5, 2>>}}
    \cup {Unloadable("missing"), Unloadable("corrupt")}

\* joblib.load raises for a file that is missing or cannot be unpickled.
LoadFailsMissingOnly(a) == a.shape = "missing"

LoadFails(a) == a.shape \in {"missing", "corrupt"}

\* Line 127: the loaded object is bound to `model` as it is.
ExtractBestEstimator(a) == IF a.shape = "wrapper" THEN best_estimator_(a) ELSE a

LoadedModel(a) == a

\* hasattr(m, "feature_importances_")
HasImportances(m) == m.shape = "bare" /\ m.has_importances

RowSum(df, i) == SumSeq([k \in 1..Len(df.cols) |-> df.rows[i][df.cols[k]]])

\* m.predict(df): one prediction per row; raises ValueError when the
\* columns are not the fitted ones or there is no row.
PredictFails(m, df) ==
    \/ m.shape \notin {"bare", "wrapper"}
    \/ df.cols # m.features
    \/ Len(df.rows) = 0

predict(m, df) == [i \in 1..Len(df.rows) |-> m.coef * RowSum(df, i)]

---------------------------------------------------------------------------
(* The test set and the uploads *)

FeatureTable(cols, n) ==
    [cols |-> cols,
     rows |-> [i \in 1..n |-> [c \in Range(cols) |-> i]]]

XTestFiles ==
    {FeatureTable(cols, n) :
        cols \in {Schema, SubSeq(Schema, 1, 2)}, n \in 0..MaxTestRows}

YTestFiles ==
    {[cols |-> <<"target">>,
      rows |-> [i \in 1..n |-> [c \in {"target"} |-> 10 * i]]] :
        n \in 0..MaxTestRows}

Uploads ==
    {NoUpload, [present |-> TRUE, readable |-> FALSE, df |-> EmptyTable]}
    \cup {[present |-> TRUE, readable |-> TRUE, df |-> FeatureTable(Schema, n)] :
            n \in 0..MaxTestRows}
    \cup {[present |-> TRUE, readable |-> TRUE,
           df |-> FeatureTable(SubSeq(Schema, 1, 2), 1)]}

---------------------------------------------------------------------------
(* Lines 150-153: the comparison table.  Assigning y_test.values as a      *)
(* column raises ValueError unless it has one value per row.               *)

FirstRowOnly(pred, y) ==
    [i \in 1..Min(Len(pred), 1) |->
        [prediction |-> pred[i], true_value |-> y.rows[i]["target"]]]

model_prediction_df(pred, y) ==
    [i \in 1..Len(pred) |->
        [prediction |-> pred[i], true_value |-> y.rows[i]["target"]]]

\* Lines 207-209.
result_df(pred) == [i \in 1..Len(pred) |-> [predicted |-> pred[i]]]

---------------------------------------------------------------------------
(* Lines 173-177: pair features with importances, sort descending by       *)
(* importance (equal scores keep their order), keep the first top_n.       *)

top_n == 15

RECURSIVE InsertDesc(_, _)
InsertDesc(r, s) ==
    IF s = <<>> THEN <<r>>
    ELSE IF r.Importance > s[1].Importance THEN <<r>> \o s
    ELSE <<s[1]>> \o InsertDesc(r, Tail(s))

RECURSIVE InsertAscending(_, _)
InsertAscending(r, s) ==
    IF s = <<>> THEN <<r>>
    ELSE IF r.Importance < s[1].Importance THEN <<r>> \o s
    ELSE <<s[1]>> \o InsertAscending(r, Tail(s))

RECURSIVE SortAscending(_)
SortAscending(rows) ==
    IF rows = <<>> THEN <<>>
    ELSE InsertAscending(rows[Len(rows)],
                         SortAscending(SubSeq(rows, 1, Len(rows) - 1)))

RECURSIVE SortDesc(_)
SortDesc(rows) ==
    IF rows = <<>> THEN <<>>
    ELSE InsertDesc(rows[Len(rows)], SortDesc(SubSeq(rows, 1, Len(rows) - 1)))

PairUp(features, importances) ==
    [i \in 1..Len(features) |->
        [Feature |-> features[i], Importance |-> importances[i]]]

feature_importance_df(features, importances) ==
    SubSeq(SortDesc(PairUp(features, importances)), 1,
           Min(Len(features), top_n))

---------------------------------------------------------------------------
(* The page *)

El(section, kind, data) == [section |-> section, kind |-> kind, data |-> data]

\* typing_effect writes the text one character at a time into one
\* placeholder; what stays on the page is the whole text.
typing_effect(section, text) == El(section, "markdown", text)

\* An exception no handler catches ends the pass; the runtime shows it.
Raise(section, type) ==
    /\ pc' = "aborted"
    /\ rendered' = Append(rendered, El("uncaught", "exception",
                                       [at |-> section, type |-> type]))

Sections(page) == {page[i].section : i \in 1..Len(page)}

---------------------------------------------------------------------------
(* The script, section by section *)

Init ==
    /\ pc = "intro"
    /\ rendered = <<>>
    /\ merge_raw = EmptyTable
    /\ merge_df = EmptyTable
    /\ artifact = NoModel
    /\ model = NoModel
    /\ x_test = EmptyTable
    /\ y_test = EmptyTable
    /\ uploaded = NoUpload
    /\ rk_in = NoRanking
    /\ rk_out = <<>>

\* Lines 9-70: title, introduction, data sources, data dictionary, header.
Intro ==
    /\ pc = "intro"
    /\ rendered' = rendered \o
         << El("title", "title", "Inflation Inference Dashboard"),
            typing_effect("intro", "intro"),
            typing_effect("sources", "Data Sources"),
            El("sources", "markdown", "links"),
            El("dictionary", "expander", "Data Dictionary"),
            typing_effect("eda", "Exploratory Data Analysis") >>
    /\ pc' = "load_data"
    /\ UNCHANGED <<merge_raw, merge_df, artifact, model, x_test, y_test,
                   uploaded, rk_in, rk_out>>

\* Lines 72-75.
LoadData ==
    /\ pc = "load_data"
    /\ \E csv \in MergedCsvFiles :
         /\ merge_raw' = csv
         /\ IF ~HasColumn(csv, "period")
            THEN /\ Raise("load_data", "KeyError")
                 /\ merge_df' = csv
            ELSE IF \E i \in 1..Len(csv.rows) : ~Parseable(csv.rows[i]["period"])
            THEN /\ Raise("load_data", "ValueError")
                 /\ merge_df' = csv
            ELSE /\ merge_df' = sort_values(ParsePeriod(csv), "period")
                 /\ pc' = "download_merged"
                 /\ UNCHANGED rendered
    /\ UNCHANGED <<artifact, model, x_test, y_test, uploaded, rk_in, rk_out>>

\* Lines 77-85.
DownloadMerged ==
    /\ pc = "download_merged"
    /\ rendered' = Append(rendered, El("download_merged", "download", to_csv(merge_df)))
    /\ pc' = "trend"
    /\ UNCHANGED <<merge_raw, merge_df, artifact, model, x_test, y_test,
                   uploaded, rk_in, rk_out>>

\* Lines 87-103.
TrendPlot ==
    /\ pc = "trend"
    /\ IF MissingColumns(merge_df, <<"period">> \o inflation_vars) # {}
       THEN Raise("trend", "KeyError")
       ELSE /\ rendered' = rendered \o
                 << El("trend", "pyplot",
                       [x |-> Column(merge_df, "period"),
                        lines |-> [k \in 1..Len(inflation_vars) |->
                                     Column(merge_df, inflation_vars[k])]]),
                    typing_effect("trend", "trend commentary") >>
            /\ pc' = "corr"
    /\ UNCHANGED <<merge_raw, merge_df, artifact, model, x_test, y_test,
                   uploaded, rk_in, rk_out>>

\* Lines 105-110.
CorrelationHeatmap ==
    /\ pc = "corr"
    /\ IF MissingColumns(merge_df, corr_vars) # {}
       THEN Raise("corr", "KeyError")
       ELSE /\ rendered' = rendered \o
                 << El("corr", "heatmap", corr(merge_df, corr_vars)),
                    typing_effect("corr", "correlation commentary") >>
            /\ pc' = "hist"
    /\ UNCHANGED <<merge_raw, merge_df, artifact, model, x_test, y_test,
                   uploaded, rk_in, rk_out>>

\* Lines 112-121: each histogram follows its own header.
DistributionPlots ==
    /\ pc = "hist"
    /\ LET h1 == typing_effect("hist", "Distribution of Inflation")
           p1 == El("hist", "histogram", Column(merge_df, "allItemsYearOn"))
           h2 == typing_effect("hist", "Distribution of Broad Money Supply (M3)")
           p2 == El("hist", "histogram", Column(merge_df, "moneySupply_M3"))
       IN  IF ~HasColumn(merge_df, "allItemsYearOn")
           THEN /\ pc' = "aborted"
                /\ rendered' = rendered \o
                     <<h1, El("uncaught", "exception",
                              [at |-> "hist", type |-> "KeyError"])>>
           ELSE IF ~HasColumn(merge_df, "moneySupply_M3")
           THEN /\ pc' = "aborted"
                /\ rendered' = rendered \o
                     <<h1, p1, h2, El("uncaught", "exception",
                                      [at |-> "hist", type |-> "KeyError"])>>
           ELSE /\ rendered' = rendered \o <<h1, p1, h2, p2>>
                /\ pc' = "load_model"
    /\ UNCHANGED <<merge_raw, merge_df, artifact, model, x_test, y_test,
                   uploaded, rk_in, rk_out>>

\* Lines 123-127: the section header, then joblib.load.
LoadModel ==
    /\ pc = "load_model"
    /\ \E a \in ModelFiles :
         /\ artifact' = a
         /\ LET header == typing_effect("model", "Inflation Prediction Model")
            IN  IF LoadFails(a)
                THEN /\ pc' = "aborted"
                     /\ rendered' = rendered \o
                          <<header, El("uncaught", "exception",
                                       [at |-> "model", type |-> "LoadError"])>>
                     /\ UNCHANGED model
                ELSE /\ model' = LoadedModel(a)
                     /\ rendered' = Append(rendered, header)
                     /\ pc' = "load_test"
    /\ UNCHANGED <<merge_raw, merge_df, x_test, y_test, uploaded, rk_in, rk_out>>

\* Lines 129-148.
LoadTestData ==
    /\ pc = "load_test"
    /\ \E x \in XTestFiles, y \in YTestFiles :
         /\ x_test' = x
         /\ y_test' = y
         /\ rendered' = rendered \o
              << El("test_data", "download", to_csv(x)),
                 El("test_data", "download", to_csv(y)) >>
    /\ pc' = "predict_test"
    /\ UNCHANGED <<merge_raw, merge_df, artifact, model, uploaded, rk_in, rk_out>>

\* Lines 150-163.
PredictTest ==
    /\ pc = "predict_test"
    /\ IF PredictFails(model, x_test)
       THEN Raise("predict_test", "ValueError")
       ELSE IF Len(y_test.rows) # Len(predict(model, x_test))
       THEN Raise("predict_test", "ValueError")
       ELSE LET df == model_prediction_df(predict(model, x_test), y_test)
            IN  /\ rendered' = rendered \o
                     << El("predict_test", "table", HeadRows(df)),
                        El("predict_test", "download", df) >>
                /\ pc' = "importance"
    /\ UNCHANGED <<merge_raw, merge_df, artifact, model, x_test, y_test,
                   uploaded, rk_in, rk_out>>

\* Lines 165-193.
FeatureImportance ==
    /\ pc = "importance"
    /\ LET header == typing_effect("importance", "Top 15 Most Important Features")
       IN  IF ~HasImportances(model)
           THEN /\ pc' = "aborted"
                /\ rendered' = rendered \o
                     <<header, El("uncaught", "exception",
                                  [at |-> "importance", type |-> "AttributeError"])>>
                /\ UNCHANGED <<rk_in, rk_out>>
           ELSE IF Len(model.importances) # Len(x_test.cols)
           THEN /\ pc' = "aborted"
                /\ rendered' = rendered \o
                     <<header, El("uncaught", "exception",
                                  [at |-> "importance", type |-> "ValueError"])>>
                /\ UNCHANGED <<rk_in, rk_out>>
           ELSE LET df == feature_importance_df(x_test.cols, model.importances)
                IN  /\ rk_in' = [features |-> x_test.cols,
                                 importances |-> model.importances]
                    /\ rk_out' = df
                    /\ rendered' = rendered \o
                         << header,
                            El("importance", "barplot", df),
                            El("importance", "dataframe", df) >>
                    /\ pc' = "upload"
    /\ UNCHANGED <<merge_raw, merge_df, artifact, model, x_test, y_test, uploaded>>

\* Lines 205-221: what the try block puts on the page, or the handler.
SwallowedFailure(m, df) ==
    IF PredictFails(m, df) THEN <<>>
    ELSE << El("upload", "markdown", "Predictions Preview"),
            El("upload", "user_table", HeadRows(result_df(predict(m, df)))),
            El("upload", "user_download", result_df(predict(m, df))) >>

TryUserPrediction(m, df) ==
    IF PredictFails(m, df)
    THEN << El("upload", "error", "Error making predictions") >>
    ELSE << El("upload", "markdown", "Predictions Preview"),
            El("upload", "user_table", HeadRows(result_df(predict(m, df)))),
            El("upload", "user_download", result_df(predict(m, df))) >>

\* Lines 195-221.
UserUpload ==
    /\ pc = "upload"
    /\ \E up \in Uploads :
         /\ uploaded' = up
         /\ LET header == typing_effect("upload", "Upload Your Own CSV")
            IN  IF ~up.present
                THEN /\ rendered' = Append(rendered, header)
                     /\ pc' = "footer"
                ELSE IF ~up.readable
                THEN /\ pc' = "aborted"
                     /\ rendered' = rendered \o
                          <<header, El("uncaught", "exception",
                                       [at |-> "upload", type |-> "EmptyDataError"])>>
                ELSE /\ rendered' = rendered \o
                          << header,
                             El("upload", "markdown", "File Uploaded Successfully"),
                             El("upload", "dataframe", HeadRows(up.df.rows)) >>
                          \o TryUserPrediction(model, up.df)
                     /\ pc' = "footer"
    /\ UNCHANGED <<merge_raw, merge_df, artifact, model, x_test, y_test,
                   rk_in, rk_out>>

\* Lines 223-228.
Footer ==
    /\ pc = "footer"
    /\ rendered' = Append(rendered, El("footer", "markdown", "Contact"))
    /\ pc' = "done"
    /\ UNCHANGED <<merge_raw, merge_df, artifact, model, x_test, y_test,
                   uploaded, rk_in, rk_out>>

Next ==
    \/ Intro
    \/ LoadData
    \/ DownloadMerged
    \/ TrendPlot
    \/ CorrelationHeatmap
    \/ DistributionPlots
    \/ LoadModel
    \/ LoadTestData
    \/ PredictTest
    \/ FeatureImportance
    \/ UserUpload
    \/ Footer

Spec == Init /\ [][Next]_vars

---------------------------------------------------------------------------
(* The ranking on its own: feature_importance_df applied to any aligned    *)
(* pair of feature names and importances, up to MaxFeatures features.      *)

FeatureNames ==
    <<"a", "b", "c", "d", "e", "f", "g", "h", "i", "j", "k", "l", "m",
      "n", "o", "p", "q", "r", "s", "t", "u", "v", "w", "x", "y", "z">>

\* Importances (a*i + b) mod m: all equal (a = 0), increasing, or scattered.
RankInputs ==
    {[features |-> SubSeq(FeatureNames, 1, n),
      importances |-> [i \in 1..n |-> (a * i + b) % m]] :
        n \in 0..Min(MaxFeatures, Len(FeatureNames)),
        a \in {0, 1, 7}, b \in {0, 1}, m \in {3, 20}}
    \cup {[features |-> <<"a", "b", "c">>, importances |-> <<1, 5, 2>>]}

InitRank ==
    /\ pc = "rank"
    /\ rendered = <<>>
    /\ merge_raw = EmptyTable
    /\ merge_df = EmptyTable
    /\ artifact = NoModel
    /\ model = NoModel
    /\ x_test = EmptyTable
    /\ y_test = EmptyTable
    /\ uploaded = NoUpload
    /\ rk_in \in RankInputs
    /\ rk_out = <<>>

Rank ==
    /\ pc = "rank"
    /\ rk_out' = feature_importance_df(rk_in.features, rk_in.importances)
    /\ pc' = "ranked"
    /\ UNCHANGED <<rendered, merge_raw, merge_df, artifact, model, x_test,
                   y_test, uploaded, rk_in>>

NextRank == Rank

SpecRank == InitRank /\ [][NextRank]_vars

---------------------------------------------------------------------------
(* Vocabulary of the properties *)

Order ==
    [intro |-> 1, load_data |-> 2, download_merged |-> 3, trend |-> 4,
     corr |-> 5, hist |-> 6, load_model |-> 7, model |-> 7, load_test |-> 8,
     test_data |-> 8, predict_test |-> 9, importance |-> 10, upload |-> 11,
     footer |-> 12, done |-> 13]

Aborted == pc = "aborted"

\* The section whose exception ended the pass.
AbortedAt(section) ==
    /\ Aborted
    /\ rendered[Len(rendered)].kind = "exception"
    /\ rendered[Len(rendered)].data.at = section

\* The pass has run the section (to its end, or into its exception).
Ran(section) ==
    /\ pc \in DOMAIN Order \cup {"aborted"}
    /\ IF Aborted
       THEN Order[rendered[Len(rendered)].data.at] >= Order[section]
       ELSE Order[pc] > Order[section]

DataOf(page, section, kind) ==
    {page[i].data :
        i \in {j \in 1..Len(page) :
                 page[j].section = section /\ page[j].kind = kind}}

IsPrefix(s, t) == Len(s) <= Len(t) /\ SubSeq(t, 1, Len(s)) = s

AboveModel ==
    {"title", "intro", "sources", "dictionary", "eda", "download_merged",
     "trend", "corr", "hist"}

FromModelOn == {"test_data", "predict_test", "importance", "upload", "footer"}

ModelDependent == {"predict_test", "importance", "upload"}

---------------------------------------------------------------------------
(* C1: a merged dataset without a `period` column makes the pass skip the  *)
(* trend chart and go on; the missing column raises nothing in the loader  *)
(* or the trend section.                                                   *)
C1_MissingPeriodDegrades ==
    (Ran("load_data") /\ ~HasColumn(merge_raw, "period"))
        => /\ ~AbortedAt("load_data")
           /\ ~AbortedAt("trend")
           /\ "trend" \notin Sections(rendered)

(* C2: when predict fails on the uploaded table the handler renders an     *)
(* error, no user table or download is rendered, everything rendered       *)
(* before stays as it was, and the pass goes on to the footer.             *)
UploadPredictFailed(up) ==
    up.present /\ up.readable /\ PredictFails(model, up.df)

C2_UploadFailureCaught ==
    [][ /\ (pc = "upload" /\ UploadPredictFailed(uploaded'))
            => /\ IsPrefix(rendered, rendered')
               /\ Cardinality(DataOf(rendered', "upload", "error")) = 1
               /\ DataOf(rendered', "upload", "user_table") = {}
               /\ DataOf(rendered', "upload", "user_download") = {}
               /\ pc' = "footer"
        /\ (pc = "footer")
            => /\ IsPrefix(rendered, rendered')
               /\ "footer" \in Sections(rendered')
               /\ pc' = "done" ]_vars

C2_Witness ==
    /\ pc = "done"
    /\ UploadPredictFailed(uploaded)
    /\ DataOf(rendered, "upload", "error") # {}
    /\ "footer" \in Sections(rendered)

(* C3 as stated: after a failed load of the artifact the error is shown,   *)
(* the model-dependent sections are not rendered, the sections above are,  *)
(* and nothing else is halted: the footer is rendered.                     *)
C3_OnlyModelSectionsHalted ==
    (artifact.shape \in {"missing", "corrupt"} /\ pc \in {"done", "aborted"})
        => /\ DataOf(rendered, "uncaught", "exception") # {}
           /\ Sections(rendered) \cap ModelDependent = {}
           /\ AboveModel \subseteq Sections(rendered)
           /\ "footer" \in Sections(rendered)

(* C3 amended: a failed load of the artifact ends the pass there: the      *)
(* error is shown, every section above the model section stays rendered,   *)
(* and nothing scheduled from the load on is rendered, the test-set        *)
(* downloads and the footer included.                                      *)
C3_LoadFailureEndsPass ==
    (artifact.shape \in {"missing", "corrupt"})
        => /\ AbortedAt("model")
           /\ AboveModel \subseteq Sections(rendered)
           /\ Sections(rendered) \cap FromModelOn = {}
           /\ model = NoModel

C3_Witness ==
    /\ artifact.shape = "corrupt"
    /\ AbortedAt("model")
    /\ "hist" \in Sections(rendered)

(* C4: of the four candidate columns, fewer than 2 present give no heatmap *)
(* and no exception; 2 or more give a heatmap over exactly the present     *)
(* ones, symmetric, with a diagonal of ones.                               *)
PresentCorrVars == {c \in Range(corr_vars) : HasColumn(merge_df, c)}

GoodHeatmap(m, P) ==
    /\ DOMAIN m = P \X P
    /\ \A a \in P, b \in P : m[a, b] = m[b, a]
    /\ \A a \in P : IsOne(m[a, a])

C4_HeatmapGate ==
    Ran("corr")
        => /\ ~AbortedAt("corr")
           /\ IF Cardinality(PresentCorrVars) < 2
              THEN DataOf(rendered, "corr", "heatmap") = {}
              ELSE /\ DataOf(rendered, "corr", "heatmap") # {}
                   /\ \A m \in DataOf(rendered, "corr", "heatmap") :
                        GoodHeatmap(m, PresentCorrVars)

(* C5: the importance chart and table are rendered exactly when the        *)
(* predictor has importances; without them a notice is rendered, nothing   *)
(* is raised and the pass goes on.                                         *)
C5_ImportanceGate ==
    Ran("importance")
        => /\ HasImportances(model)
                <=> /\ DataOf(rendered, "importance", "barplot") # {}
                    /\ DataOf(rendered, "importance", "dataframe") # {}
           /\ ~HasImportances(model)
                => /\ DataOf(rendered, "importance", "info") # {}
                   /\ ~AbortedAt("importance")

C7_RowCounts ==
    /\ \A df \in DataOf(rendered, "predict_test", "download") :
         /\ Len(df) = Len(x_test.rows)
         /\ \A i \in 1..Len(df) : df[i].true_value = y_test.rows[i]["target"]
    /\ \A df \in DataOf(rendered, "upload", "user_download") :
         Len(df) = Len(uploaded.df.rows)

C7_Witness ==
    /\ pc = "done"
    /\ Len(x_test.rows) = 2
    /\ DataOf(rendered, "predict_test", "download") # {}
    /\ Len(uploaded.df.rows) = 2
    /\ DataOf(rendered, "upload", "user_download") # {}

(* C8: ranking n aligned features gives min(n, 15) rows, each an original  *)
(* (feature, score) pair, no omitted feature scoring above a kept one, the *)
(* first row a maximum; [1, 5, 2] over [a, b, c] puts (b, 5) first.        *)
RankedShape(inp, out) ==
    LET pairs == PairUp(inp.features, inp.importances)
        kept  == {out[i].Feature : i \in 1..Len(out)}
    IN  /\ Len(out) = Min(Len(inp.features), top_n)
        /\ \A i \in 1..Len(out) : out[i] \in Range(pairs)
        /\ \A i, j \in 1..Len(out) : i # j => out[i].Feature # out[j].Feature
        /\ \A q \in Range(pairs) : q.Feature \notin kept
              => \A i \in 1..Len(out) : q.Importance <= out[i].Importance
        /\ Len(out) > 0
              => \A q \in Range(pairs) : q.Importance <= out[1].Importance
        /\ (inp.features = <<"a", "b", "c">> /\ inp.importances = <<1, 5, 2>>)
              => out[1] = [Feature |-> "b", Importance |-> 5]

(* C8 as stated: the rows are strictly descending by score. *)
C8_StrictlyDescending ==
    pc = "ranked"
        => /\ RankedShape(rk_in, rk_out)
           /\ \A i \in 1..(Len(rk_out) - 1) :
                rk_out[i].Importance > rk_out[i + 1].Importance

(* C8 amended: the rows are descending by score, equal scores allowed. *)
C8_Descending ==
    pc = "ranked"
        => /\ RankedShape(rk_in, rk_out)
           /\ \A i \in 1..(Len(rk_out) - 1) :
                rk_out[i].Importance >= rk_out[i + 1].Importance

C8_Witness ==
    /\ pc = "ranked"
    /\ Len(rk_in.features) > top_n
    /\ Len(rk_out) = top_n
    /\ \E i \in 1..(Len(rk_out) - 1) :
         rk_out[i].Importance = rk_out[i + 1].Importance
    /\ \E i \in 1..(Len(rk_out) - 1) :
         rk_out[i].Importance > rk_out[i + 1].Importance

(* C9: with a `period` column, merge_df is the loaded rows (each with its  *)
(* period parsed) in another order, ascending by period with missing       *)
(* periods last; the download and the trend chart see that order; and no   *)
(* section after the loader changes merge_df.                              *)
Ascending(keys) ==
    \A i \in 1..Len(keys), j \in 1..Len(keys) :
        i < j => ~KeyBefore(keys[j], keys[i])

SameRows(a, b) ==
    /\ Len(a) = Len(b)
    /\ \A r \in Range(a) \cup Range(b) :
         Cardinality({i \in 1..Len(a) : a[i] = r})
             = Cardinality({i \in 1..Len(b) : b[i] = r})

C9_Loaded ==
    (Ran("load_data") /\ ~AbortedAt("load_data"))
        => /\ merge_df.cols = merge_raw.cols
           /\ SameRows(merge_df.rows, ParsePeriod(merge_raw).rows)
           /\ Ascending(Column(merge_df, "period"))
           /\ \A d \in DataOf(rendered, "download_merged", "download") :
                d = to_csv(merge_df)
           /\ \A t \in DataOf(rendered, "trend", "pyplot") :
                t.x = Column(merge_df, "period") /\ Ascending(t.x)

C9_SortedAndUntouched ==
    /\ []C9_Loaded
    /\ [][pc \notin {"intro", "load_data"} => merge_df' = merge_df]_vars

C9_Witness ==
    /\ pc = "done"
    /\ Len(merge_raw.rows) = 2
    /\ merge_raw.rows[1]["period"] = "2021-02"
    /\ merge_raw.rows[2]["period"] = "2020-12"
    /\ merge_df.rows[1]["period"] < merge_df.rows[2]["period"]
    /\ DataOf(rendered, "trend", "pyplot") # {}

(* C10: a failure in the upload section, reading the uploaded file         *)
(* included, stays in that section: nothing is raised out of it and the    *)
(* footer is rendered after it.                                            *)
C10_UploadFailureContained ==
    (Ran("upload") /\ uploaded.present)
        => /\ ~AbortedAt("upload")
           /\ pc = "done" => "footer" \in Sections(rendered)

====
